---- MODULE Spec2Model ----
(***************************************************************************)
(* A model of the coreason_codex inference engine.                         *)
(*                                                                         *)
(*   Spec      the runtime context (pipeline.py: CodexContext) and the     *)
(*             pack loader it drives (loader.py: CodexLoader).             *)
(*   SpecNorm  the semantic normalizer (normalizer.py: CodexNormalizer)    *)
(*             over any concept table, serving any request.                *)
(*   SpecElev  the normalizer over any concept and relationship tables,    *)
(*             serving a request for the nearest concept.                  *)
(*   SpecCut   the normalizer on a vector table that may hold more records *)
(*             than the request asks for.                                  *)
(*   SpecRel   the hierarchy (hierarchy.py: CodexHierarchy) and the        *)
(*             cross-walker (crosswalker.py: CodexCrossWalker), each       *)
(*             serving its first call on the relational store.             *)
(*   SpecVocab    the offline builder's build_vocab (build.py) on any      *)
(*                source and output directory.                             *)
(*   SpecVectors  the builder's build_vectors on any CONCEPT table.        *)
(*   SpecPack     generate_manifest on a built output directory, then the  *)
(*                loader's verify_integrity on that pack.                  *)
(*   SpecTrees    the directory hash before and after changes to the       *)
(*                directory.                                               *)
(*   SpecQuery    the facade's Codex.query (main.py) for any caller.       *)
(*   SpecIndex    repository indexing and code search through an           *)
(*                initialized context.                                     *)
(***************************************************************************)
EXTENDS Integers, Sequences, FiniteSets, TLC

\* ------------------------------------------------------------------------
\* Bounds of the model
\* ------------------------------------------------------------------------
\* number of initialize() calls in one behaviour
MaxInits == 3
\* number of entries in manifest.checksums
MaxEntries == 2
\* concept ids are 1..MaxId
MaxId == 2
\* largest k of a normalize request, and the number of records of a vector table
MaxResults == 2
\* number of rows of concept_relationship
MaxEdges == 1
\* concepts of a hierarchy
MaxNodes == 4
\* number of build_vocab() calls in one behaviour
MaxBuilds == 2
\* rows of the CONCEPT table a vector build reads
MaxRows == 3
\* largest batch_size of a vector build
MaxBatch == 2
\* longest relative path a file is renamed or added to, in symbols
MaxPathLen == 3
\* longest relative path of a file in a directory as it is first hashed
MaxNameLen == 1
\* number of files in a hashed directory
MaxFiles == 2
\* changes made to a directory between two hashes of it
MaxEdits == 2
\* rows of the table code_vectors of a pack, and largest limit of a code search
MaxHits == 2
\* documents one indexing run embeds
MaxDocs == 2
\* indexing runs in one behaviour
MaxRuns == 1

\* ------------------------------------------------------------------------
\* State
\* ------------------------------------------------------------------------
VARIABLES
    instance,      \* CodexContext._instance: 0 is None, n > 0 the context built by call n
    calls,         \* number of initialize() calls started so far
    pc,            \* position of the running initialize() call
    manifest,      \* checksums of the manifest the running call loaded, in file order
    verifyResult,  \* what verify_integrity did in the running call
    hashed,        \* indices of the entries _compute_sha256 was called on, in call order
    opened,        \* store handles the running call has opened
    closed,        \* store handles the running call has closed
    outcome,       \* how the last finished initialize() call ended
    history,       \* per finished call: the id of the context it built, 0 when it raised
    got,           \* what the last get_instance() call did
    got_at,        \* where the initializing thread stood when it was made
    concept,       \* DuckDB table concept: concept_id -> the columns the component
                   \* reads, NoRow (NoConcept for the cross-walker) when absent
    concept_relationship, \* DuckDB table concept_relationship: a set of rows
    text,          \* normalize argument text, a sequence of characters
    k,             \* normalize argument k
    domain_filter, \* normalize argument domain_filter, NoFilter for None
    phase,         \* "ready" before normalize is called, "done" after it ended
    results,       \* what the vector search returned to normalize
    matches,       \* the list normalize returned
    raised,        \* the error normalize raised, "none" when it returned
    trace,         \* the collaborators normalize called, in call order
    vectors,       \* the records of the LanceDB table, nearest to the query first
    embedded,      \* what embedder.embed did in normalize, "none" when not called
    rows,          \* the concept ids of the rows the DuckDB query returned, in row order
    concept_ancestor, \* DuckDB table CONCEPT_ANCESTOR: a set of rows
    op,            \* the hierarchy or cross-walk operation called, "none" before the call
    args,          \* the arguments of that call
    store_fails,   \* whether the DuckDB connection raised during the call
    returned,      \* the list get_descendants or translate_code returned
    answer,        \* the boolean check_relationship returned
    escaped,       \* the exception the call let through to its caller, "none" if none
    sources,       \* the source directory: whether it exists and the CSV files in it
    out_dir,       \* whether the builder's output directory exists
    vocab_file,    \* output_dir/vocab.duckdb: "absent", "previous", "partial" or "complete"
    before,        \* vocab_file when the running build_vocab() call started
    builds,        \* number of build_vocab() calls started so far
    bpc,           \* position of the running build_vocab() call
    bcon,          \* the DuckDB handle of the call: "none", "open" or "closed"
    loaded,        \* the tables the call has loaded, in load order
    indexes,       \* number of indexes the call has created
    berror,        \* the exception build_vocab raised, "none" if none
    bfailed,       \* the step of build_vocab that failed, "none" if none
    CONCEPT,       \* table CONCEPT of vocab.duckdb: concept_name per row, in cursor order
    has_vocab,     \* whether output_dir/vocab.duckdb exists when build_vectors is called
    batch_size,    \* build_vectors argument batch_size
    vec_table,     \* output_dir/vectors.lance: its state and the records it holds
    vpc,           \* position of the build_vectors() call
    vcon,          \* the DuckDB handle of the call: "none", "open" or "closed"
    fetched,       \* number of rows the cursor has handed out
    written,       \* the records the generator has yielded to create_table
    mismatched,    \* whether a yielded batch came from an embed_batch result of another length
    verror,        \* the exception build_vectors raised, "none" if none
    vfailed,       \* what made build_vectors fail, "none" if nothing
    tree_a,        \* a directory as it was first: its files
    tree_b,        \* the directory after the changes made to it
    edits,         \* number of changes made
    hash_a,        \* _compute_sha256 of the directory as it was, <<>> before it is computed
    hash_b,        \* _compute_sha256 of the changed directory, <<>> before it is computed
    pack_vocab,    \* output_dir/vocab.duckdb: whether it exists, its bytes
    pack_vectors,  \* output_dir/vectors.lance: whether it exists, its files
    pack_manifest, \* the checksums generate_manifest wrote, in the order written
    walked_build,  \* the order in which os.walk listed vectors.lance to the builder
    walked_load,   \* the order in which os.walk listed vectors.lance to the loader
    ppc,           \* "built", "sealed" (manifest written) or "verified"
    pack_verified, \* what verify_integrity said of the sealed pack, "none" before
    code_vectors,  \* table code_vectors in the pack directory: whether it exists, its rows
    sealed,        \* that table as it was when initialize verified and opened the pack
    user,          \* the user_context of the caller
    hits,          \* what search_code returned to Codex.query
    filtered,      \* what Codex.query returned
    fpc,           \* "idle", "indexed", "queried" or "raised"
    runs           \* number of index_repository calls made

ctxVars == <<instance, calls, pc, manifest, verifyResult, hashed, opened, closed,
             outcome, history, got, got_at>>

normVars == <<concept, concept_relationship, text, k, domain_filter, phase,
              results, matches, raised, trace, vectors, embedded, rows>>

relVars == <<concept_ancestor, op, args, store_fails, returned, answer, escaped>>

vocabVars == <<sources, out_dir, vocab_file, before, builds, bpc, bcon, loaded,
               indexes, berror, bfailed>>

\* the state of the offline builder and of the facade
vecVars == <<CONCEPT, has_vocab, batch_size, vec_table, vpc, vcon, fetched,
             written, mismatched, verror, vfailed>>

treeVars == <<tree_a, tree_b, edits, hash_a, hash_b>>

packVars == <<pack_vocab, pack_vectors, pack_manifest, walked_build, walked_load,
              ppc, pack_verified>>

facadeVars == <<code_vectors, sealed, user, hits, filtered, fpc, runs>>

extVars == <<vocabVars, vecVars, treeVars, packVars, facadeVars>>

vars == <<ctxVars, normVars, relVars, extVars>>

\* the value standing for Python's None in the singleton slot
None == 0

\* ------------------------------------------------------------------------
\* Pack contents on disk (inputs of the loader)
\* ------------------------------------------------------------------------
\* What pack_path / filename is on disk:
\*   file, dir      a regular file / a directory inside the pack
\*   missing        nothing at that path
\*   link_in        a symbolic link to an existing file inside the pack
\*   link_dangling  a symbolic link (inside the pack) whose target is missing
\*   link_out       a symbolic link whose target lies outside the pack
\*   outside        a path such as ../evil.txt that leaves the pack root
HashableKinds == {"file", "dir"}
OtherKinds == {"missing", "link_in", "link_dangling", "link_out", "outside"}

\* SHA-256 digests, as two distinguishable values
Digests == {"h1", "h2"}

\* One manifest entry with the state of the path it names: actual is the digest
\* of the bytes (or of the directory tree) now on disk, expected the manifest's.
Entries ==
    [kind : HashableKinds, actual : Digests, expected : Digests]
    \cup [kind : OtherKinds, actual : {"h1"}, expected : {"h1"}]

RECURSIVE SeqsUpTo(_, _)
SeqsUpTo(S, n) ==
    IF n = 0 THEN {<<>>}
    ELSE LET shorter == SeqsUpTo(S, n - 1)
         IN  shorter \cup {Append(s, x) : s \in {t \in shorter : Len(t) = n - 1}, x \in S}

\* manifest.json as load_manifest finds it
ManifestFiles ==
    {[state |-> "missing", checksums |-> <<>>],
     [state |-> "malformed", checksums |-> <<>>]}
    \cup {[state |-> "valid", checksums |-> m] : m \in SeqsUpTo(Entries, MaxEntries)}

\* ------------------------------------------------------------------------
\* loader.py: CodexLoader.verify_integrity
\* ------------------------------------------------------------------------
\* file_path.resolve().is_relative_to(pack_root): resolve() follows links
ResolvesInside(e) == e.kind \notin {"outside", "link_out"}

\* file_path.exists(): follows links
PathExists(e) == e.kind \notin {"missing", "link_dangling"}

\* file_path.is_symlink(): does not follow the link
IsSymlink(e) == e.kind \in {"link_in", "link_dangling", "link_out"}

\* _compute_sha256: directory hash for a directory, streamed file hash otherwise
compute_sha256(e) == e.actual

\* a variant that hashes the artifact before the security checks
check_entry_hash_first(e) ==
    IF ~ResolvesInside(e) THEN [error |-> "PathTraversal", hashed |-> TRUE]
    ELSE IF ~PathExists(e) THEN [error |-> "ArtifactMissing", hashed |-> FALSE]
    ELSE IF IsSymlink(e) THEN [error |-> "Symlink", hashed |-> TRUE]
    ELSE IF compute_sha256(e) # e.expected
         THEN [error |-> "IntegrityMismatch", hashed |-> TRUE]
    ELSE [error |-> "none", hashed |-> TRUE]

\* the body of the loop over manifest.checksums for one entry: the error it
\* raises ("none" when the entry is accepted) and whether a hash was computed
check_entry(e) ==
    IF ~ResolvesInside(e) THEN [error |-> "PathTraversal", hashed |-> FALSE]
    ELSE IF ~PathExists(e) THEN [error |-> "ArtifactMissing", hashed |-> FALSE]
    ELSE IF IsSymlink(e) THEN [error |-> "Symlink", hashed |-> FALSE]
    ELSE IF compute_sha256(e) # e.expected
         THEN [error |-> "IntegrityMismatch", hashed |-> TRUE]
    ELSE [error |-> "none", hashed |-> TRUE]

RECURSIVE verify_loop(_, _, _)
verify_loop(m, i, hs) ==
    IF i > Len(m) THEN [result |-> "True", hashed |-> hs]
    ELSE LET r == check_entry(m[i])
             hs2 == IF r.hashed THEN Append(hs, i) ELSE hs
         IN  IF r.error # "none" THEN [result |-> r.error, hashed |-> hs2]
             ELSE verify_loop(m, i + 1, hs2)

\* a variant that accepts an artifact without comparing its hash
verify_integrity_no_compare(m) ==
    LET bad == {i \in 1..Len(m) : check_entry(m[i]).error
                                     \notin {"none", "IntegrityMismatch"}}
    IN  IF bad = {} THEN [result |-> "True", hashed |-> [i \in 1..Len(m) |-> i]]
        ELSE verify_loop(m, 1, <<>>)

\* verify_integrity on loaded checksums m: "True" or the error raised, and the
\* entries hashed on the way
verify_integrity(m) == verify_loop(m, 1, <<>>)

\* ------------------------------------------------------------------------
\* pipeline.py: CodexContext.initialize, one step per call it makes
\* ------------------------------------------------------------------------
\* an exception leaves CodexContext.__init__ and initialize: nothing is assigned
Raise(kind) ==
    /\ pc' = "idle"
    /\ outcome' = kind
    /\ history' = Append(history, None)
    /\ UNCHANGED <<instance, calls, got, got_at>>

\* initialize(pack_path) is called
initialize_call ==
    /\ UNCHANGED <<normVars, relVars, extVars>>
    /\ pc = "idle"
    /\ calls < MaxInits
    /\ calls' = calls + 1
    /\ pc' = "loader"
    /\ manifest' = <<>>
    /\ verifyResult' = "none"
    /\ hashed' = <<>>
    /\ opened' = {}
    /\ closed' = {}
    /\ UNCHANGED <<instance, outcome, history, got, got_at>>

\* a variant of __init__ that stores the context in the class slot as soon as
\* its loader exists
CodexLoader_init_publish_early ==
    /\ UNCHANGED <<normVars, relVars, extVars>>
    /\ pc = "loader"
    /\ \E exists \in BOOLEAN :
          IF exists
          THEN /\ pc' = "verify"
               /\ instance' = calls
               /\ UNCHANGED <<calls, outcome, history, got, got_at>>
          ELSE Raise("PackNotFound")
    /\ UNCHANGED <<manifest, verifyResult, hashed, opened, closed>>

\* CodexLoader.__init__: the pack directory must exist
CodexLoader_init ==
    /\ UNCHANGED <<normVars, relVars, extVars>>
    /\ pc = "loader"
    /\ \E exists \in BOOLEAN :
          IF exists
          THEN /\ pc' = "verify"
               /\ UNCHANGED <<instance, calls, outcome, history, got, got_at>>
          ELSE Raise("PackNotFound")
    /\ UNCHANGED <<manifest, verifyResult, hashed, opened, closed>>

\* a variant of load_codex that connects to DuckDB before verifying the pack
load_codex_verify_connect_first ==
    /\ UNCHANGED <<normVars, relVars, extVars>>
    /\ pc = "verify"
    /\ \E f \in ManifestFiles :
          /\ f.state = "valid"
          /\ manifest' = f.checksums
          /\ verifyResult' = verify_integrity(f.checksums).result
          /\ hashed' = verify_integrity(f.checksums).hashed
          /\ opened' = opened \cup {"duckdb"}
          /\ IF verify_integrity(f.checksums).result = "True"
             THEN /\ pc' = "lancedb"
                  /\ UNCHANGED <<instance, calls, outcome, history, got, got_at>>
             ELSE Raise(verify_integrity(f.checksums).result)
    /\ UNCHANGED closed

\* load_codex, first part: verify_integrity (which loads the manifest)
load_codex_verify ==
    /\ UNCHANGED <<normVars, relVars, extVars>>
    /\ pc = "verify"
    /\ \E f \in ManifestFiles :
          IF f.state # "valid"
          THEN /\ Raise(IF f.state = "missing" THEN "ManifestMissing"
                        ELSE "ManifestMalformed")
               /\ verifyResult' = "LoadManifestRaised"
               /\ UNCHANGED <<manifest, hashed>>
          ELSE LET r == verify_integrity(f.checksums)
               IN  /\ manifest' = f.checksums
                   /\ verifyResult' = r.result
                   /\ hashed' = r.hashed
                   /\ IF r.result = "True"
                      THEN /\ pc' = "duckdb"
                           /\ UNCHANGED <<instance, calls, outcome, history, got, got_at>>
                      ELSE Raise(r.result)
    /\ UNCHANGED <<opened, closed>>

\* load_codex, second part: duckdb.connect(read_only) and SELECT 1
load_codex_duckdb ==
    /\ UNCHANGED <<normVars, relVars, extVars>>
    /\ pc = "duckdb"
    /\ \E ok \in BOOLEAN :
          IF ok
          THEN /\ opened' = opened \cup {"duckdb"}
               /\ pc' = "lancedb"
               /\ UNCHANGED <<instance, calls, outcome, history, got, got_at>>
          ELSE /\ Raise("DuckDBConnectFailed")
               /\ UNCHANGED opened
    /\ UNCHANGED <<manifest, verifyResult, hashed, closed>>

\* load_codex, third part: lancedb.connect; the DuckDB connection made before
\* is a local of load_codex and is not closed when this raises
load_codex_lancedb ==
    /\ UNCHANGED <<normVars, relVars, extVars>>
    /\ pc = "lancedb"
    /\ \E ok \in BOOLEAN :
          IF ok
          THEN /\ opened' = opened \cup {"lancedb"}
               /\ pc' = "embedder"
               /\ UNCHANGED <<instance, calls, outcome, history, got, got_at>>
          ELSE /\ Raise("LanceDBConnectFailed")
               /\ UNCHANGED opened
    /\ UNCHANGED <<manifest, verifyResult, hashed, closed>>

\* a component constructor of CodexContext.__init__: it succeeds or raises
Construct(at, next, error) ==
    /\ UNCHANGED <<normVars, relVars, extVars>>
    /\ pc = at
    /\ \E ok \in BOOLEAN :
          IF ok
          THEN /\ pc' = next
               /\ UNCHANGED <<instance, calls, outcome, history, got, got_at>>
          ELSE Raise(error)
    /\ UNCHANGED <<manifest, verifyResult, hashed, opened, closed>>

\* SapBertEmbedder(): raises RuntimeError when the model cannot be loaded
make_embedder == Construct("embedder", "normalizer", "EmbedderLoadFailed")

\* CodexNormalizer(...): raises ValueError when the vectors table cannot be opened
make_normalizer == Construct("normalizer", "hierarchy", "VectorTableMissing")

\* CodexHierarchy(...)
make_hierarchy == Construct("hierarchy", "crosswalker", "HierarchyFailed")

\* CodexCrossWalker(...): raises ValueError when concept_relationship is missing
make_crosswalker == Construct("crosswalker", "publish", "RelationshipTableMissing")

\* a variant of initialize that clears the singleton while the new one is built
initialize_publish_reset_first ==
    /\ UNCHANGED <<normVars, relVars, extVars>>
    /\ pc = "publish"
    /\ \E ok \in BOOLEAN :
          /\ instance' = IF ok THEN calls ELSE None
          /\ outcome' = IF ok THEN "ok" ELSE "HierarchyFailed"
          /\ history' = Append(history, IF ok THEN calls ELSE None)
    /\ pc' = "idle"
    /\ UNCHANGED <<calls, manifest, verifyResult, hashed, opened, closed, got, got_at>>

\* cls._instance = cls(pack_path): the assignment, once __init__ has returned
initialize_publish ==
    /\ UNCHANGED <<normVars, relVars, extVars>>
    /\ pc = "publish"
    /\ instance' = calls
    /\ outcome' = "ok"
    /\ history' = Append(history, calls)
    /\ pc' = "idle"
    /\ UNCHANGED <<calls, manifest, verifyResult, hashed, opened, closed, got, got_at>>

\* CodexContext.get_instance(): the context, or the not-initialized RuntimeError
get_instance_result ==
    IF instance = None THEN [raised |-> "NotInitialized", ctx |-> None]
    ELSE [raised |-> "none", ctx |-> instance]

get_instance ==
    /\ UNCHANGED <<normVars, relVars, extVars>>
    /\ got' = get_instance_result
    /\ got_at' = pc
    /\ UNCHANGED <<instance, calls, pc, manifest, verifyResult, hashed, opened,
                   closed, outcome, history>>

\* ------------------------------------------------------------------------
\* Stores and requests of the normalizer
\* ------------------------------------------------------------------------
ConceptIds == 1..MaxId

\* strings the code inspects are sequences of one-character strings
Condition == <<"C", "o", "n", "d", "i", "t", "i", "o", "n">>
Drug == <<"D", "r", "u", "g">>
\* the injection attempt of test_invalid_domain_filter_injection
Injection == <<"C", "o", "n", "d", "i", "t", "i", "o", "n", "'", " ", "O", "R",
               " ", "'", "1", "'", "=", "'", "1">>

\* None as domain_filter: a value no string equals
NoFilter == <<"<None>">>
\* the absence of a row for a concept id
NoRow == [domain_id |-> <<>>, standard_concept |-> "<absent>"]
Null == "NULL"

Domains == {Condition, Drug}
Standards == {"S", Null}
ConceptRows == [domain_id : Domains, standard_concept : Standards]

\* every concept table over ConceptIds (concept_id is unique within a pack)
ConceptTables == [ConceptIds -> ConceptRows \cup {NoRow}]

\* rows of concept_relationship with relationship_id 'Maps to'
MapsToRows ==
    [concept_id_1 : ConceptIds, concept_id_2 : ConceptIds,
     relationship_id : {"Maps to"}, invalid_reason : {Null, "D"}]

RelationshipTables == {t \in SUBSET MapsToRows : Cardinality(t) <= MaxEdges}

Texts == {<<>>, <<" ", " ">>, <<"h", "i">>}
Filters == {NoFilter, <<>>, Condition, Injection}

\* cosine distances the vector store reports: 0.0, 1.0 and 2.0
Distances == {0, 1, 2}
VectorHits == [concept_id : ConceptIds, distance : Distances]

\* the records of a vector table of at most n records, nearest to the query
\* vector first (several records may carry the same concept id)
SearchResults(n) ==
    {rs \in SeqsUpTo(VectorHits, n) :
        \A i \in 1..(Len(rs) - 1) : rs[i].distance <= rs[i + 1].distance}

\* the orders in which a query without ORDER BY may return the rows of ids
RowOrders(ids) ==
    {o \in [1..Cardinality(ids) -> ids] :
        \A i, j \in 1..Cardinality(ids) : i # j => o[i] # o[j]}

\* ------------------------------------------------------------------------
\* normalizer.py: CodexNormalizer.normalize
\* ------------------------------------------------------------------------
Whitespace == {" ", "\t", "\n", "\r"}

\* str.strip(): drop leading and trailing whitespace
RECURSIVE strip(_)
strip(t) ==
    IF t = <<>> THEN t
    ELSE IF t[1] \in Whitespace THEN strip(Tail(t))
    ELSE IF t[Len(t)] \in Whitespace THEN strip(SubSeq(t, 1, Len(t) - 1))
    ELSE t

\* 1.0, the similarity of distance 0
ScoreOne == 1

\* the keys of a dict kept as a sequence of <<key, value>> pairs
Keys(d) == {d[i][1] : i \in 1..Len(d)}

\* d[key] = value, keeping the insertion position of a key already present
DictSet(d, key, value) ==
    IF key \in Keys(d)
    THEN [i \in 1..Len(d) |-> IF d[i][1] = key THEN <<key, value>> ELSE d[i]]
    ELSE Append(d, <<key, value>>)

\* d[key] for a key that is present
DictGet(d, key) == (CHOOSE i \in 1..Len(d) : d[i][1] = key)

\* a variant in which every occurrence of an id overwrites its score
RECURSIVE concept_scores_overwrite(_)
concept_scores_overwrite(rs) ==
    IF rs = <<>> THEN <<>>
    ELSE LET r == rs[Len(rs)]
         IN  DictSet(concept_scores_overwrite(SubSeq(rs, 1, Len(rs) - 1)),
                     r.concept_id, ScoreOne - r.distance)

\* the dict concept_scores after the loop over results: the score of an id is
\* recorded only when the id is not yet a key
RECURSIVE concept_scores(_)
concept_scores(rs) ==
    IF rs = <<>> THEN <<>>
    ELSE LET r == rs[Len(rs)]
             d == concept_scores(SubSeq(rs, 1, Len(rs) - 1))
         IN  IF r.concept_id \notin Keys(d)
             THEN DictSet(d, r.concept_id, ScoreOne - r.distance)
             ELSE d

\* "if domain_filter:" -- None and the empty string add no predicate
FilterApplies(f) == f # NoFilter /\ f # <<>>

\* a variant of the query without the domain predicate
query_rows_no_domain(ids, f, order) ==
    SelectSeq(order, LAMBDA c : c \in ids /\ concept[c] # NoRow)

\* SELECT ... FROM concept WHERE concept_id IN (ids) [AND domain_id = f], the
\* rows coming back in the order the store scans them
query_rows(ids, f, order) ==
    SelectSeq(order, LAMBDA c :
        /\ c \in ids
        /\ concept[c] # NoRow
        /\ FilterApplies(f) => concept[c].domain_id = f)

\* a variant that attaches the target of any 'Maps to' row leaving a
\* non-standard concept
CodexMatch_any_target(t, c, scores) ==
    LET targets == {r.concept_id_2 : r \in {e \in concept_relationship :
                        e.concept_id_1 = c /\ e.relationship_id = "Maps to"}}
    IN  [input_text |-> t,
         concept_id |-> c,
         domain_id |-> concept[c].domain_id,
         standard_concept |-> concept[c].standard_concept,
         similarity_score |-> scores[DictGet(scores, c)][2],
         is_standard |-> (concept[c].standard_concept = "S"),
         mapped_standard_id |->
            IF concept[c].standard_concept # "S" /\ targets # {}
            THEN CHOOSE x \in targets : TRUE
            ELSE None]

\* the CodexMatch built from the row of concept c
CodexMatch(t, c, scores) ==
    [input_text |-> t,
     concept_id |-> c,
     domain_id |-> concept[c].domain_id,
     standard_concept |-> concept[c].standard_concept,
     similarity_score |-> scores[DictGet(scores, c)][2],
     is_standard |-> (concept[c].standard_concept = "S"),
     mapped_standard_id |-> None]

\* a variant of the sort that puts a match before the earlier matches of the
\* same score
RECURSIVE sort_by_score_unstable(_)
sort_by_score_unstable(ms) ==
    IF ms = <<>> THEN <<>>
    ELSE LET m == ms[Len(ms)]
             front == sort_by_score_unstable(SubSeq(ms, 1, Len(ms) - 1))
             keep == Cardinality({i \in 1..Len(front) :
                                    front[i].similarity_score > m.similarity_score})
         IN  SubSeq(front, 1, keep) \o <<m>> \o SubSeq(front, keep + 1, Len(front))

\* list.sort(key=similarity_score, reverse=True): stable, descending
RECURSIVE sort_by_score(_)
sort_by_score(ms) ==
    IF ms = <<>> THEN <<>>
    ELSE LET m == ms[Len(ms)]
             front == sort_by_score(SubSeq(ms, 1, Len(ms) - 1))
             keep == Cardinality({i \in 1..Len(front) :
                                    front[i].similarity_score >= m.similarity_score})
         IN  SubSeq(front, 1, keep) \o <<m>> \o SubSeq(front, keep + 1, Len(front))

\* what embedder.embed(text) can do: return a vector of the table's dimension,
\* raise, or return a vector of another dimension
EmbedOutcomes == {"vector", "raises", "wrong_dimension"}

\* the exception of the embedder, as it leaves embed()
EmbedderException == "exception raised by embedder.embed"
\* the exception of the vector store for a query vector of the wrong dimension
SearchException == "exception raised by table.search"

\* table.search(vector).limit(n).to_list(): the n nearest records of the table
search(tbl, n) == SubSeq(tbl, 1, IF Len(tbl) < n THEN Len(tbl) ELSE n)

\* the rows the DuckDB query of normalize returns for vector hits rs
hydrate(f, rs, order) == query_rows(Keys(concept_scores(rs)), f, order)

\* steps 3 and 4 of normalize for vector hits rs and row order `order`
build_matches(t, f, rs, order) ==
    LET scores == concept_scores(rs)
        rws == hydrate(f, rs, order)
    IN  sort_by_score([i \in 1..Len(rws) |-> CodexMatch(t, rws[i], scores)])

\* normalize(text, k, domain_filter) on the request of the state
normalize ==
    /\ phase = "ready"
    /\ phase' = "done"
    /\ IF strip(text) = <<>>
       THEN /\ embedded' = "none"
            /\ raised' = "none"
            /\ results' = <<>>
            /\ rows' = <<>>
            /\ matches' = <<>>
            /\ trace' = <<>>
       ELSE \E e \in EmbedOutcomes :
               /\ embedded' = e
               /\ IF e = "raises"
                  THEN /\ raised' = EmbedderException
                       /\ results' = <<>>
                       /\ rows' = <<>>
                       /\ matches' = <<>>
                       /\ trace' = <<"embed">>
                  ELSE IF e = "wrong_dimension"
                  THEN /\ raised' = SearchException
                       /\ results' = <<>>
                       /\ rows' = <<>>
                       /\ matches' = <<>>
                       /\ trace' = <<"embed", "search">>
                  ELSE LET rs == search(vectors, k)
                       IN  /\ raised' = "none"
                           /\ results' = rs
                           /\ IF rs = <<>>
                              THEN /\ rows' = <<>>
                                   /\ matches' = <<>>
                                   /\ trace' = <<"embed", "search">>
                              ELSE /\ \E order \in RowOrders(ConceptIds) :
                                         /\ rows' = hydrate(domain_filter, rs, order)
                                         /\ matches' = build_matches(text, domain_filter,
                                                                     rs, order)
                                   /\ trace' = <<"embed", "search", "query">>
    /\ UNCHANGED <<concept, concept_relationship, text, k, domain_filter, vectors>>
    /\ UNCHANGED <<ctxVars, relVars, extVars>>

\* ------------------------------------------------------------------------
\* Stores and requests of the hierarchy and the cross-walker
\* ------------------------------------------------------------------------
Nodes == 1..MaxNodes

\* the direct parent -> child edges a hierarchy may have (acyclic: a parent has
\* the smaller id)
ParentEdges == {p \in Nodes \X Nodes : p[1] < p[2]}

\* whether d is reached from a along the parent edges E
RECURSIVE Reaches(_, _, _)
Reaches(E, a, d) ==
    \/ <<a, d>> \in E
    \/ \E b \in (a + 1)..(d - 1) : <<a, b>> \in E /\ Reaches(E, b, d)

\* the pre-computed closure table of the hierarchy with parent edges E: one
\* row per ancestor-descendant pair and the row (x, x) of every concept
ClosureTable(E) ==
    {[ancestor_concept_id |-> p[1], descendant_concept_id |-> p[2]] :
        p \in {q \in Nodes \X Nodes : q[1] = q[2] \/ Reaches(E, q[1], q[2])}}

AncestorTables == {ClosureTable(E) : E \in SUBSET ParentEdges}

\* the ids get_descendants is asked about: 0 has no row in any table
DescendantArgs == 0..MaxNodes

\* the columns of concept the cross-walker reads
Vocabularies == {"SNOMED", "RxNorm"}
NoConcept == [vocabulary_id |-> "<absent>", invalid_reason |-> "<absent>"]
TargetRows == [vocabulary_id : Vocabularies, invalid_reason : {Null, "D"}]
TargetTables == [ConceptIds -> TargetRows \cup {NoConcept}]

RelationshipIds == {"Maps to", "Is a"}
RelationshipRows ==
    [concept_id_1 : ConceptIds, concept_id_2 : ConceptIds,
     relationship_id : RelationshipIds, invalid_reason : {Null, "D"}]
\* the subsets of S of at most n elements
RECURSIVE SubsetsUpTo(_, _)
SubsetsUpTo(S, n) ==
    IF n = 0 THEN {{}}
    ELSE LET smaller == SubsetsUpTo(S, n - 1)
         IN  smaller \cup {t \cup {x} : t \in smaller, x \in S}

EdgeTables == SubsetsUpTo(RelationshipRows, MaxEdges)

\* None as target_vocabulary_id: a value no vocabulary equals
NoVocabulary == "<None>"
TargetVocabularies == {NoVocabulary, "", "SNOMED"}

\* ------------------------------------------------------------------------
\* hierarchy.py: CodexHierarchy.get_descendants
\* ------------------------------------------------------------------------
\* the lists that hold every element of the finite set S once: the orders in
\* which a query without ORDER BY may return the rows S
Listings(S) ==
    {o \in [1..Cardinality(S) -> S] :
        \A i, j \in 1..Cardinality(S) : i # j => o[i] # o[j]}

\* a variant of the query that leaves out the row of the concept itself
descendant_rows_strict(x) ==
    {r \in concept_ancestor :
        r.ancestor_concept_id = x /\ r.descendant_concept_id # x}

\* SELECT ... FROM CONCEPT_ANCESTOR WHERE ancestor_concept_id = x
descendant_rows(x) == {r \in concept_ancestor : r.ancestor_concept_id = x}

\* a variant that reads the ancestor column of each row
first_column_ancestor(rws) == [i \in 1..Len(rws) |-> rws[i].ancestor_concept_id]

\* [row[0] for row in results]: the selected column descendant_concept_id
first_column(rws) == [i \in 1..Len(rws) |-> rws[i].descendant_concept_id]

\* get_descendants(concept_id), the first call on the store
get_descendants ==
    /\ op = "none"
    /\ \E x \in DescendantArgs, fails \in BOOLEAN :
          /\ op' = "get_descendants"
          /\ args' = <<x>>
          /\ store_fails' = fails
          /\ IF fails
             THEN returned' = <<>>
             ELSE \E rws \in Listings(descendant_rows(x)) :
                     returned' = first_column(rws)
    /\ answer' = FALSE
    /\ escaped' = "none"
    /\ UNCHANGED <<concept_ancestor, ctxVars, normVars, extVars>>

\* ------------------------------------------------------------------------
\* crosswalker.py: CodexCrossWalker.translate_code and check_relationship
\* ------------------------------------------------------------------------
\* "if target_vocabulary_id:" -- None and the empty string add no predicate
VocabularyApplies(v) == v # NoVocabulary /\ v # ""

\* the concept ids of the rows of the join in translate_code
translation_rows(source_id, relationship_id, target_vocabulary_id) ==
    {c \in ConceptIds :
        /\ [concept_id_1 |-> source_id, concept_id_2 |-> c,
            relationship_id |-> relationship_id, invalid_reason |-> Null]
              \in concept_relationship
        /\ concept[c] # NoConcept
        /\ concept[c].invalid_reason = Null
        /\ VocabularyApplies(target_vocabulary_id)
              => concept[c].vocabulary_id = target_vocabulary_id}

\* a variant of translate_code that lets the store's exception through
translate_code_raising ==
    /\ op = "none"
    /\ \E source_id \in ConceptIds, relationship_id \in RelationshipIds,
          target_vocabulary_id \in TargetVocabularies, fails \in BOOLEAN :
          /\ op' = "translate_code"
          /\ args' = <<source_id, relationship_id, target_vocabulary_id>>
          /\ store_fails' = fails
          /\ IF fails
             THEN returned' = <<>>
             ELSE \E rws \in Listings(translation_rows(source_id, relationship_id,
                                                       target_vocabulary_id)) :
                     returned' = rws
          /\ escaped' = IF fails THEN "exception raised by duckdb_conn.execute"
                        ELSE "none"
    /\ answer' = FALSE
    /\ UNCHANGED <<concept_ancestor, ctxVars, normVars, extVars>>

\* translate_code(source_id, relationship_id, target_vocabulary_id), the first
\* call on the store
translate_code ==
    /\ op = "none"
    /\ \E source_id \in ConceptIds, relationship_id \in RelationshipIds,
          target_vocabulary_id \in TargetVocabularies, fails \in BOOLEAN :
          /\ op' = "translate_code"
          /\ args' = <<source_id, relationship_id, target_vocabulary_id>>
          /\ store_fails' = fails
          /\ IF fails
             THEN returned' = <<>>
             ELSE \E rws \in Listings(translation_rows(source_id, relationship_id,
                                                       target_vocabulary_id)) :
                     returned' = rws
    /\ answer' = FALSE
    /\ escaped' = "none"
    /\ UNCHANGED <<concept_ancestor, ctxVars, normVars, extVars>>

\* a variant of the probe that accepts the edge in either direction
edge_exists_either_way(concept_id_1, concept_id_2, relationship_id) ==
    \E r \in concept_relationship :
        /\ \/ r.concept_id_1 = concept_id_1 /\ r.concept_id_2 = concept_id_2
           \/ r.concept_id_1 = concept_id_2 /\ r.concept_id_2 = concept_id_1
        /\ r.relationship_id = relationship_id
        /\ r.invalid_reason = Null

\* "result is not None" for the SELECT 1 ... LIMIT 1 of check_relationship
edge_exists(concept_id_1, concept_id_2, relationship_id) ==
    \E r \in concept_relationship :
        /\ r.concept_id_1 = concept_id_1
        /\ r.concept_id_2 = concept_id_2
        /\ r.relationship_id = relationship_id
        /\ r.invalid_reason = Null

\* check_relationship(concept_id_1, concept_id_2, relationship_id), the first
\* call on the store
check_relationship ==
    /\ op = "none"
    /\ \E concept_id_1 \in ConceptIds, concept_id_2 \in ConceptIds,
          relationship_id \in RelationshipIds, fails \in BOOLEAN :
          /\ op' = "check_relationship"
          /\ args' = <<concept_id_1, concept_id_2, relationship_id>>
          /\ store_fails' = fails
          /\ answer' = IF fails THEN FALSE
                       ELSE edge_exists(concept_id_1, concept_id_2, relationship_id)
    /\ returned' = <<>>
    /\ escaped' = "none"
    /\ UNCHANGED <<concept_ancestor, ctxVars, normVars, extVars>>

\* ------------------------------------------------------------------------
\* build.py: CodexBuilder.build_vocab
\* ------------------------------------------------------------------------
REQUIRED_FILES == {"CONCEPT.csv", "CONCEPT_RELATIONSHIP.csv", "CONCEPT_ANCESTOR.csv"}

\* the tables build_vocab loads, in load order
Tables == <<"CONCEPT", "CONCEPT_RELATIONSHIP", "CONCEPT_ANCESTOR">>

\* the CREATE INDEX statements of _create_indexes
IndexCount == 5

\* the source directories a build may find: a directory that does not exist
\* holds no file
SourceDirs ==
    {d \in [exists : BOOLEAN, files : SUBSET REQUIRED_FILES] :
        ~d.exists => d.files = {}}

\* _verify_source_files returns without raising
SourcesVerified == sources.exists /\ REQUIRED_FILES \subseteq sources.files

\* a variant of the handler that removes the file only when a handle exists
cleanup_if_connected(con, file) ==
    [con |-> IF con = "open" THEN "closed" ELSE con,
     file |-> IF con = "open" THEN "absent" ELSE file]

\* the except block of build_vocab: close the handle if there is one, unlink
\* the artifact
cleanup(con, file) ==
    [con |-> IF con = "open" THEN "closed" ELSE con,
     file |-> "absent"]

\* a step of the try block raised at `step`, leaving the artifact as `file`;
\* the call ends in the except block with RuntimeError
build_failed(step, file) ==
    /\ bcon' = cleanup(bcon, file).con
    /\ vocab_file' = cleanup(bcon, file).file
    /\ berror' = "RuntimeError"
    /\ bfailed' = step
    /\ bpc' = "raised"

\* build_vocab() up to the try block: verify the sources, make the output
\* directory, unlink an earlier artifact
build_vocab_call ==
    /\ bpc \in {"idle", "returned", "raised"}
    /\ builds < MaxBuilds
    /\ builds' = builds + 1
    /\ before' = vocab_file
    /\ bcon' = "none"
    /\ loaded' = <<>>
    /\ indexes' = 0
    /\ bfailed' = "none"
    /\ IF SourcesVerified
       THEN /\ out_dir' = TRUE
            /\ vocab_file' = "absent"
            /\ berror' = "none"
            /\ bpc' = "connect"
       ELSE /\ berror' = "FileNotFoundError"
            /\ bpc' = "raised"
            /\ UNCHANGED <<out_dir, vocab_file>>
    /\ UNCHANGED <<sources, ctxVars, normVars, relVars, vecVars, treeVars, packVars, facadeVars>>

\* con = duckdb.connect(db_path): creates the store file; a failing connect
\* may have created it already
build_vocab_connect ==
    /\ bpc = "connect"
    /\ \/ /\ bcon' = "open"
          /\ vocab_file' = "partial"
          /\ bpc' = "load"
          /\ UNCHANGED <<berror, bfailed>>
       \/ \E left \in {"absent", "partial"} : build_failed("connect", left)
    /\ UNCHANGED <<sources, out_dir, before, builds, loaded, indexes>>
    /\ UNCHANGED <<ctxVars, normVars, relVars, vecVars, treeVars, packVars, facadeVars>>

\* self._load_table(con, table) for the next table
build_vocab_load ==
    /\ bpc = "load"
    /\ LET table == Tables[Len(loaded) + 1]
       IN  \/ /\ loaded' = Append(loaded, table)
              /\ bpc' = IF Len(loaded) + 1 = Len(Tables) THEN "indexes" ELSE "load"
              /\ UNCHANGED <<bcon, vocab_file, berror, bfailed>>
           \/ /\ build_failed(table, vocab_file)
              /\ UNCHANGED loaded
    /\ UNCHANGED <<sources, out_dir, before, builds, indexes>>
    /\ UNCHANGED <<ctxVars, normVars, relVars, vecVars, treeVars, packVars, facadeVars>>

\* self._create_indexes(con): every statement succeeds, or statement n + 1
\* raises after n indexes were created
build_vocab_indexes ==
    /\ bpc = "indexes"
    /\ \/ /\ indexes' = IndexCount
          /\ bpc' = "close"
          /\ UNCHANGED <<bcon, vocab_file, berror, bfailed>>
       \/ \E n \in 0..(IndexCount - 1) :
             /\ indexes' = n
             /\ build_failed("indexes", vocab_file)
    /\ UNCHANGED <<sources, out_dir, before, builds, loaded>>
    /\ UNCHANGED <<ctxVars, normVars, relVars, vecVars, treeVars, packVars, facadeVars>>

\* con.close(); return db_path
build_vocab_return ==
    /\ bpc = "close"
    /\ bcon' = "closed"
    /\ vocab_file' = "complete"
    /\ bpc' = "returned"
    /\ UNCHANGED <<sources, out_dir, before, builds, loaded, indexes, berror, bfailed>>
    /\ UNCHANGED <<ctxVars, normVars, relVars, vecVars, treeVars, packVars, facadeVars>>

\* ------------------------------------------------------------------------
\* build.py: CodexBuilder.build_vectors
\* ------------------------------------------------------------------------
\* values of CONCEPT.concept_name: NULL, the empty string, a name
ConceptNames == {Null, "", "flu"}

\* the CONCEPT tables of at most MaxRows rows: row i has concept_id i
ConceptCsvs == UNION {[1..n -> ConceptNames] : n \in 0..MaxRows}

\* vectors.lance does not exist
NoTable == [state |-> "absent", records |-> <<>>]

\* a record of an earlier run, of a concept that is no longer in CONCEPT
StaleRecord == [concept_id |-> 0, concept_name |-> "old", vector |-> "old"]

\* vectors.lance as an earlier run left it
EarlierTable == [state |-> "complete", records |-> <<StaleRecord>>]

\* a variant of the query without the predicate on the empty name
named_rows_null_only(tbl) ==
    SelectSeq([i \in 1..Len(tbl) |-> [concept_id |-> i, concept_name |-> tbl[i]]],
              LAMBDA row : row.concept_name # Null)

\* SELECT concept_id, concept_name, ... FROM CONCEPT
\* WHERE concept_name IS NOT NULL AND concept_name != ''
named_rows(tbl) ==
    SelectSeq([i \in 1..Len(tbl) |-> [concept_id |-> i, concept_name |-> tbl[i]]],
              LAMBDA row : row.concept_name # Null /\ row.concept_name # "")

\* cursor.fetchmany(n) after `done` rows were handed out
fetchmany(tbl, done, n) ==
    SubSeq(named_rows(tbl), done + 1,
           IF done + n < Len(named_rows(tbl)) THEN done + n ELSE Len(named_rows(tbl)))

\* the numbers of vectors embed_batch may return for n texts
EmbeddingCounts(n) == {n - 1, n, n + 1}

\* the records of a batch: row i gets embeddings[i], the embedding of its own
\* name when embed_batch returned one vector per text
batch_data(rws, count) ==
    [i \in 1..Len(rws) |->
        [concept_id |-> rws[i].concept_id,
         concept_name |-> rws[i].concept_name,
         vector |-> IF count = Len(rws) THEN rws[i].concept_name
                    ELSE "vector of a mismatched batch"]]

\* what a failed create_table may leave of vectors.lance: the code removes
\* nothing, the store may have written the batches it consumed
Leftovers ==
    {vec_table} \cup
    (IF written # <<>> THEN {[state |-> "partial", records |-> written]} ELSE {})

\* build_vectors raises RuntimeError for `cause`; finally: con.close()
vectors_failed(cause) ==
    /\ verror' = "RuntimeError"
    /\ vfailed' = cause
    /\ vcon' = "closed"
    /\ vpc' = "raised"
    /\ vec_table' \in Leftovers

\* build_vectors(embedder, batch_size=...) up to create_table
build_vectors_call ==
    /\ vpc = "idle"
    /\ IF has_vocab
       THEN /\ vcon' = "open"
            /\ vpc' = "stream"
            /\ UNCHANGED <<verror, vfailed>>
       ELSE /\ verror' = "FileNotFoundError"
            /\ vfailed' = "no vocab.duckdb"
            /\ vpc' = "raised"
            /\ UNCHANGED vcon
    /\ UNCHANGED <<CONCEPT, has_vocab, batch_size, vec_table, fetched, written,
                   mismatched>>
    /\ UNCHANGED <<ctxVars, normVars, relVars, vocabVars, treeVars, packVars, facadeVars>>

\* one turn of the loop of batch_generator that fetches rows
batch_generator ==
    /\ vpc = "stream"
    /\ fetched < Len(named_rows(CONCEPT))
    /\ LET rws == fetchmany(CONCEPT, fetched, batch_size)
       IN  \/ /\ vectors_failed("cursor")
              /\ UNCHANGED <<fetched, written, mismatched>>
           \/ /\ fetched' = fetched + Len(rws)
              /\ \/ /\ vectors_failed("embedder")
                    /\ UNCHANGED <<written, mismatched>>
                 \/ \E count \in EmbeddingCounts(Len(rws)) :
                       IF count < Len(rws)
                       THEN /\ vectors_failed("IndexError")
                            /\ UNCHANGED <<written, mismatched>>
                       ELSE /\ written' = written \o batch_data(rws, count)
                            /\ mismatched' = (mismatched \/ count # Len(rws))
                            /\ UNCHANGED <<vec_table, vpc, vcon, verror, vfailed>>
    /\ UNCHANGED <<CONCEPT, has_vocab, batch_size>>
    /\ UNCHANGED <<ctxVars, normVars, relVars, vocabVars, treeVars, packVars, facadeVars>>

\* the last fetch returns no rows, the generator ends, create_table writes the
\* table over an earlier one and build_vectors returns; the fetch or the
\* store may raise instead
build_vectors_return ==
    /\ vpc = "stream"
    /\ fetched = Len(named_rows(CONCEPT))
    /\ \/ vectors_failed("cursor")
       \/ vectors_failed("lancedb")
       \/ /\ vec_table' = [state |-> "complete", records |-> written]
          /\ vcon' = "closed"
          /\ vpc' = "returned"
          /\ UNCHANGED <<verror, vfailed>>
    /\ UNCHANGED <<CONCEPT, has_vocab, batch_size, fetched, written, mismatched>>
    /\ UNCHANGED <<ctxVars, normVars, relVars, vocabVars, treeVars, packVars, facadeVars>>

\* ------------------------------------------------------------------------
\* Directory hashing: loader.py _compute_sha256, build.py _compute_dir_hash
\* ------------------------------------------------------------------------
\* hashlib.sha256(b"").hexdigest()
HexOfEmpty == "e3b0c44298fc1c149afbf4c8996fb92427ae41e4649b934ca495991b7852b855"

\* hashlib.sha256(b"a").hexdigest()
HexOfA == "ca978112ca1bbdcafac231b39a23dc4da786eff8147c4e72b9807785afee48bb"

\* the symbols strings are made of: the character x, and the 64 characters of
\* a digest taken as one symbol
NameChars == {"x", HexOfEmpty, HexOfA}

\* ord() of the first character of a symbol; two symbols are different strings
\* of which none is a prefix of the other, so strings of symbols compare as
\* their first different symbols do
Code(c) == IF c = "x" THEN 120 ELSE IF c = HexOfEmpty THEN 101 ELSE 99

\* relative paths of files, as strings
Names == SeqsUpTo(NameChars, MaxPathLen) \ {<<>>}

\* the bytes of a file: b"" or b"a"
Contents == {<<>>, <<97>>}

\* a file of a directory: str(rel_path) and the bytes of the file
Files == [rel : Names, bytes : Contents]

\* directories of at most MaxFiles files with paths of at most n symbols, no
\* two files at one path
Directories(n) ==
    {t \in SubsetsUpTo({f \in Files : Len(f.rel) <= n}, MaxFiles) :
        \A f, g \in t : f.rel = g.rel => f = g}

\* directories as they are first hashed
Trees == Directories(MaxNameLen)

\* p < q on Python strings: by code point, a proper prefix first
RECURSIVE StrLess(_, _)
StrLess(p, q) ==
    IF q = <<>> THEN FALSE
    ELSE IF p = <<>> THEN TRUE
    ELSE IF Code(p[1]) # Code(q[1]) THEN Code(p[1]) < Code(q[1])
    ELSE StrLess(Tail(p), Tail(q))

\* hashlib.sha256(bytes).hexdigest() of the bytes of a file
hexdigest(bytes) == IF bytes = <<>> THEN <<HexOfEmpty>> ELSE <<HexOfA>>

\* hexdigest() of the master hash after the updates `stream`, collision-free:
\* it stands for the bytes that were fed
master_hexdigest(stream) == <<"sha256:">> \o stream

\* the bytes the loop over the sorted paths feeds to the master hash:
\* update(rel.encode()), update(file_hash.encode()) per file
RECURSIVE updates(_)
updates(paths) ==
    IF paths = <<>> THEN <<>>
    ELSE paths[1].rel \o hexdigest(paths[1].bytes) \o updates(Tail(paths))

\* loader.py _compute_file_sha256
compute_file_sha256(bytes) == hexdigest(bytes)

\* build.py _compute_file_hash
compute_file_hash(bytes) == hexdigest(bytes)

\* loader.py _compute_directory_sha256 when os.walk lists the files as `walk`
compute_directory_sha256(walk) ==
    LET file_paths == SortSeq(walk, LAMBDA x, y : StrLess(x.rel, y.rel))
    IN  master_hexdigest(updates(file_paths))

\* a variant of the builder's directory hash without paths.sort
compute_dir_hash_unsorted(walk) == master_hexdigest(updates(walk))

\* build.py _compute_dir_hash when os.walk lists the files as `walk`
compute_dir_hash(walk) ==
    LET paths == SortSeq(walk, LAMBDA x, y : StrLess(x.rel, y.rel))
    IN  master_hexdigest(updates(paths))

\* a byte of a file of the directory is changed
mutate_byte ==
    /\ hash_a = <<>>
    /\ edits < MaxEdits
    /\ \E f \in tree_b : \E b \in Contents \ {f.bytes} :
          tree_b' = (tree_b \ {f}) \cup {[rel |-> f.rel, bytes |-> b]}
    /\ edits' = edits + 1
    /\ UNCHANGED <<tree_a, hash_a, hash_b>>
    /\ UNCHANGED <<ctxVars, normVars, relVars, vocabVars, vecVars, packVars, facadeVars>>

\* a file of the directory gets a name no file has
rename_file ==
    /\ hash_a = <<>>
    /\ edits < MaxEdits
    /\ \E f \in tree_b : \E n \in Names \ {g.rel : g \in tree_b} :
          tree_b' = (tree_b \ {f}) \cup {[rel |-> n, bytes |-> f.bytes]}
    /\ edits' = edits + 1
    /\ UNCHANGED <<tree_a, hash_a, hash_b>>
    /\ UNCHANGED <<ctxVars, normVars, relVars, vocabVars, vecVars, packVars, facadeVars>>

\* a file is added to the directory
add_file ==
    /\ hash_a = <<>>
    /\ edits < MaxEdits
    /\ Cardinality(tree_b) < MaxFiles
    /\ \E f \in Files :
          /\ f.rel \notin {g.rel : g \in tree_b}
          /\ tree_b' = tree_b \cup {f}
    /\ edits' = edits + 1
    /\ UNCHANGED <<tree_a, hash_a, hash_b>>
    /\ UNCHANGED <<ctxVars, normVars, relVars, vocabVars, vecVars, packVars, facadeVars>>

\* a file is removed from the directory
remove_file ==
    /\ hash_a = <<>>
    /\ edits < MaxEdits
    /\ \E f \in tree_b : tree_b' = tree_b \ {f}
    /\ edits' = edits + 1
    /\ UNCHANGED <<tree_a, hash_a, hash_b>>
    /\ UNCHANGED <<ctxVars, normVars, relVars, vocabVars, vecVars, packVars, facadeVars>>

\* loader._compute_sha256(d) of the directory as it was and as it is now
compute_sha256_twice ==
    /\ hash_a = <<>>
    /\ \E wa \in Listings(tree_a) : hash_a' = compute_directory_sha256(wa)
    /\ \E wb \in Listings(tree_b) : hash_b' = compute_directory_sha256(wb)
    /\ UNCHANGED <<tree_a, tree_b, edits>>
    /\ UNCHANGED <<ctxVars, normVars, relVars, vocabVars, vecVars, packVars, facadeVars>>

\* ------------------------------------------------------------------------
\* build.py generate_manifest, then loader.py verify_integrity on that pack
\* ------------------------------------------------------------------------
\* generate_manifest: a checksum for each of vocab.duckdb and vectors.lance
\* that exists, in that order
generate_manifest ==
    /\ ppc = "built"
    /\ \E walk \in Listings(pack_vectors.files) :
          /\ walked_build' = walk
          /\ pack_manifest' =
                (IF pack_vocab.exists
                 THEN <<[name |-> "vocab.duckdb", kind |-> "file",
                         digest |-> compute_file_hash(pack_vocab.bytes)]>>
                 ELSE <<>>)
                \o
                (IF pack_vectors.exists
                 THEN <<[name |-> "vectors.lance", kind |-> "dir",
                         digest |-> compute_dir_hash(walk)]>>
                 ELSE <<>>)
    /\ ppc' = "sealed"
    /\ UNCHANGED <<pack_vocab, pack_vectors, walked_load, pack_verified>>
    /\ UNCHANGED <<ctxVars, normVars, relVars, vocabVars, vecVars, treeVars, facadeVars>>

\* verify_integrity of the loader on the pack as generate_manifest left it
verify_sealed_pack ==
    /\ ppc = "sealed"
    /\ \E walk \in Listings(pack_vectors.files) :
          /\ walked_load' = walk
          /\ pack_verified' =
                verify_integrity(
                    [i \in 1..Len(pack_manifest) |->
                        [kind |-> pack_manifest[i].kind,
                         actual |-> IF pack_manifest[i].kind = "dir"
                                    THEN compute_directory_sha256(walk)
                                    ELSE compute_file_sha256(pack_vocab.bytes),
                         expected |-> pack_manifest[i].digest]]).result
    /\ ppc' = "verified"
    /\ UNCHANGED <<pack_vocab, pack_vectors, pack_manifest, walked_build>>
    /\ UNCHANGED <<ctxVars, normVars, relVars, vocabVars, vecVars, treeVars, facadeVars>>

\* ------------------------------------------------------------------------
\* main.py: Codex.query, Codex.index_repository; pipeline.py: search_code,
\* IndexingPipeline
\* ------------------------------------------------------------------------
UserIds == {"u1", "u2"}
Groups == {"g1", "g2"}

\* res.get("owner_id") of a row without the key
NoOwner == "<None>"

\* user_context: user_id and the list groups
Users == [user_id : UserIds, groups : SUBSET Groups]

\* the values of res.get("allowed_groups", []): a list of groups, or a value
\* that is not a list (None with no items, a tuple with its items)
AllowedGroups ==
    [list : {TRUE}, items : SUBSET Groups]
    \cup [list : {FALSE}, items : {{}, {"g1"}}]

\* rows of code_vectors as a search returns them
Documents == [owner_id : UserIds \cup {NoOwner}, allowed_groups : AllowedGroups]

NoCodeVectors == [exists |-> FALSE, rows |-> <<>>]

\* the states of the table code_vectors of a pack
CodeTables ==
    {NoCodeVectors} \cup [exists : {TRUE}, rows : SeqsUpTo(Documents, MaxHits)]

\* a variant of the test of Codex.query that iterates allowed_groups whatever
\* its type
visible_any_iterable(res, u) ==
    \/ res.owner_id = u.user_id
    \/ res.allowed_groups.items \cap u.groups # {}

\* the body of the loop of Codex.query: whether res is appended to filtered
visible(res, u) ==
    IF res.owner_id = u.user_id THEN TRUE
    ELSE LET allowed == IF res.allowed_groups.list THEN res.allowed_groups.items
                        ELSE {}
         IN  \E g \in allowed : g \in u.groups

\* the loop of Codex.query over results
RECURSIVE filter_results(_, _)
filter_results(rs, u) ==
    IF rs = <<>> THEN <<>>
    ELSE (IF visible(rs[1], u) THEN <<rs[1]>> ELSE <<>>)
         \o filter_results(Tail(rs), u)

\* what tbl.search(v).limit(n).to_list() may return of the rows: n of them, or
\* all when there are fewer, in the order of their distances
to_list(rws, n) ==
    {[i \in 1..Len(o) |-> rws[o[i]]] :
        o \in {p \in SeqsUpTo(1..Len(rws), n) :
                 /\ Len(p) = (IF n < Len(rws) THEN n ELSE Len(rws))
                 /\ \A i, j \in 1..Len(p) : i # j => p[i] # p[j]}}

\* CodexContext.search_code: the lists it may return; a missing table or a
\* failing search gives the empty list
search_code(n) ==
    {<<>>} \cup (IF code_vectors.exists THEN to_list(code_vectors.rows, n) ELSE {})

\* Codex.query(query, user_context, limit)
query ==
    /\ fpc \in {"idle", "indexed"}
    /\ IF instance = None
       THEN /\ fpc' = "raised"
            /\ UNCHANGED <<hits, filtered>>
       ELSE \/ /\ fpc' = "raised"
               /\ UNCHANGED <<hits, filtered>>
            \/ \E limit \in 1..MaxHits : \E rs \in search_code(limit) :
                  /\ hits' = rs
                  /\ filtered' = filter_results(rs, user)
                  /\ fpc' = "queried"
    /\ UNCHANGED <<code_vectors, sealed, user, runs>>
    /\ UNCHANGED <<ctxVars, normVars, relVars, vocabVars, vecVars, treeVars, packVars>>

\* the document _embed_and_store builds for a file of the repository
doc(u) ==
    [owner_id |-> u.user_id, allowed_groups |-> [list |-> TRUE, items |-> u.groups]]

\* Codex.index_repository(url, user_context): IndexingPipeline().run, which
\* stores the documents of n embedded files through context.lancedb_conn
index_repository ==
    /\ fpc \in {"idle", "indexed"}
    /\ runs < MaxRuns
    /\ runs' = runs + 1
    /\ IF instance = None
       THEN /\ fpc' = "raised"
            /\ UNCHANGED code_vectors
       ELSE \/ /\ fpc' = "raised"
               /\ UNCHANGED code_vectors
            \/ \E n \in 0..MaxDocs :
                  LET documents == [i \in 1..n |-> doc(user)]
                  IN  /\ fpc' = "indexed"
                      /\ IF n = 0 THEN UNCHANGED code_vectors
                         ELSE \/ code_vectors' =
                                    [exists |-> TRUE,
                                     rows |-> code_vectors.rows \o documents]
                              \/ code_vectors' = [exists |-> TRUE, rows |-> documents]
                              \/ UNCHANGED code_vectors
    /\ UNCHANGED <<sealed, user, hits, filtered>>
    /\ UNCHANGED <<ctxVars, normVars, relVars, vocabVars, vecVars, treeVars, packVars>>

\* ------------------------------------------------------------------------
\* Specifications
\* ------------------------------------------------------------------------
CtxInit ==
    /\ instance = None
    /\ calls = 0
    /\ pc = "idle"
    /\ manifest = <<>>
    /\ verifyResult = "none"
    /\ hashed = <<>>
    /\ opened = {}
    /\ closed = {}
    /\ outcome = "none"
    /\ history = <<>>
    /\ got = [raised |-> "none", ctx |-> None]
    /\ got_at = "idle"

\* no normalize call yet
NoCall ==
    /\ phase = "ready"
    /\ results = <<>>
    /\ matches = <<>>
    /\ raised = "none"
    /\ trace = <<>>
    /\ embedded = "none"
    /\ rows = <<>>

\* no hierarchy or cross-walk call yet
NoQuery ==
    /\ op = "none"
    /\ args = <<>>
    /\ store_fails = FALSE
    /\ returned = <<>>
    /\ answer = FALSE
    /\ escaped = "none"

\* no build_vocab call yet, nothing to build from
NoBuild ==
    /\ sources = [exists |-> FALSE, files |-> {}]
    /\ out_dir = FALSE
    /\ vocab_file = "absent"
    /\ before = "absent"
    /\ builds = 0
    /\ bpc = "idle"
    /\ bcon = "none"
    /\ loaded = <<>>
    /\ indexes = 0
    /\ berror = "none"
    /\ bfailed = "none"

\* no build_vectors call yet, nothing to embed
NoVectors ==
    /\ CONCEPT = <<>>
    /\ has_vocab = FALSE
    /\ batch_size = 1
    /\ vec_table = NoTable
    /\ vpc = "idle"
    /\ vcon = "none"
    /\ fetched = 0
    /\ written = <<>>
    /\ mismatched = FALSE
    /\ verror = "none"
    /\ vfailed = "none"

\* no directory is hashed
NoTrees ==
    /\ tree_a = {}
    /\ tree_b = {}
    /\ edits = 0
    /\ hash_a = <<>>
    /\ hash_b = <<>>

\* no pack is sealed
NoPack ==
    /\ pack_vocab = [exists |-> FALSE, bytes |-> <<>>]
    /\ pack_vectors = [exists |-> FALSE, files |-> {}]
    /\ pack_manifest = <<>>
    /\ walked_build = <<>>
    /\ walked_load = <<>>
    /\ ppc = "built"
    /\ pack_verified = "none"

\* the facade is not called
NoFacade ==
    /\ code_vectors = NoCodeVectors
    /\ sealed = NoCodeVectors
    /\ user = [user_id |-> "u1", groups |-> {}]
    /\ hits = <<>>
    /\ filtered = <<>>
    /\ fpc = "idle"
    /\ runs = 0

\* the builder and the facade are not exercised
NoExt == NoBuild /\ NoVectors /\ NoTrees /\ NoPack /\ NoFacade

\* the runtime context, from process start; the normalizer is not exercised
Init ==
    /\ CtxInit
    /\ concept = [c \in ConceptIds |-> NoRow]
    /\ concept_relationship = {}
    /\ text = <<>>
    /\ k = 1
    /\ domain_filter = NoFilter
    /\ vectors = <<>>
    /\ NoCall
    /\ concept_ancestor = {}
    /\ NoQuery
    /\ NoExt

\* a normalizer over any concept table, about to serve any request on a
\* vector table of at most k records
InitNorm ==
    /\ CtxInit
    /\ concept \in ConceptTables
    /\ concept_relationship = {}
    /\ text \in Texts
    /\ k \in 1..MaxResults
    /\ domain_filter \in Filters
    /\ vectors \in SearchResults(k)
    /\ NoCall
    /\ concept_ancestor = {}
    /\ NoQuery
    /\ NoExt

\* a normalizer over any concept and relationship tables, asked for the
\* nearest concept of a text without a domain filter
InitElev ==
    /\ CtxInit
    /\ concept \in ConceptTables
    /\ concept_relationship \in RelationshipTables
    /\ text = <<"h", "i">>
    /\ k = 1
    /\ domain_filter = NoFilter
    /\ vectors \in SearchResults(k)
    /\ NoCall
    /\ concept_ancestor = {}
    /\ NoQuery
    /\ NoExt

\* a normalizer over any concept table, asked for the nearest concept of a
\* text on a vector table that may hold more than k records
InitCut ==
    /\ CtxInit
    /\ concept \in ConceptTables
    /\ concept_relationship = {}
    /\ text = <<"h", "i">>
    /\ k = 1
    /\ domain_filter \in {NoFilter, Condition}
    /\ vectors \in SearchResults(MaxResults)
    /\ NoCall
    /\ concept_ancestor = {}
    /\ NoQuery
    /\ NoExt

Next ==
    \/ initialize_call
    \/ CodexLoader_init
    \/ load_codex_verify
    \/ load_codex_duckdb
    \/ load_codex_lancedb
    \/ make_embedder
    \/ make_normalizer
    \/ make_hierarchy
    \/ make_crosswalker
    \/ initialize_publish
    \/ get_instance

Spec == Init /\ [][Next]_vars

NextNorm == normalize

SpecNorm == InitNorm /\ [][NextNorm]_vars

SpecElev == InitElev /\ [][NextNorm]_vars

SpecCut == InitCut /\ [][NextNorm]_vars

\* a hierarchy over any closure table, or a cross-walker over any concept and
\* relationship tables, about to serve its first call
InitRel ==
    /\ CtxInit
    /\ text = <<>>
    /\ k = 1
    /\ domain_filter = NoFilter
    /\ vectors = <<>>
    /\ NoCall
    /\ NoQuery
    /\ NoExt
    /\ \/ /\ concept_ancestor \in AncestorTables
          /\ concept = [c \in ConceptIds |-> NoConcept]
          /\ concept_relationship = {}
       \/ /\ concept_ancestor = {}
          /\ concept \in TargetTables
          /\ concept_relationship \in EdgeTables

NextRel ==
    \/ get_descendants
    \/ translate_code
    \/ check_relationship

SpecRel == InitRel /\ [][NextRel]_vars

\* the runtime is not exercised
RuntimeIdle ==
    /\ CtxInit
    /\ concept = [c \in ConceptIds |-> NoRow]
    /\ concept_relationship = {}
    /\ text = <<>>
    /\ k = 1
    /\ domain_filter = NoFilter
    /\ vectors = <<>>
    /\ NoCall
    /\ concept_ancestor = {}
    /\ NoQuery

\* a builder over any source directory and any output directory, in which an
\* earlier run may have left a vocab.duckdb
InitVocab ==
    /\ RuntimeIdle
    /\ sources \in SourceDirs
    /\ out_dir \in BOOLEAN
    /\ vocab_file \in (IF out_dir THEN {"absent", "previous"} ELSE {"absent"})
    /\ before = "absent"
    /\ builds = 0
    /\ bpc = "idle"
    /\ bcon = "none"
    /\ loaded = <<>>
    /\ indexes = 0
    /\ berror = "none"
    /\ bfailed = "none"
    /\ NoVectors
    /\ NoTrees
    /\ NoPack
    /\ NoFacade

NextVocab ==
    \/ build_vocab_call
    \/ build_vocab_connect
    \/ build_vocab_load
    \/ build_vocab_indexes
    \/ build_vocab_return

SpecVocab == InitVocab /\ [][NextVocab]_vars

\* a builder about to embed any CONCEPT table with any batch size, in an
\* output directory where an earlier run may have left a vector table
InitVectors ==
    /\ RuntimeIdle
    /\ NoBuild
    /\ CONCEPT \in ConceptCsvs
    /\ has_vocab \in BOOLEAN
    /\ batch_size \in 1..MaxBatch
    /\ vec_table \in {NoTable, EarlierTable}
    /\ vpc = "idle"
    /\ vcon = "none"
    /\ fetched = 0
    /\ written = <<>>
    /\ mismatched = FALSE
    /\ verror = "none"
    /\ vfailed = "none"
    /\ NoTrees
    /\ NoPack
    /\ NoFacade

NextVectors ==
    \/ build_vectors_call
    \/ batch_generator
    \/ build_vectors_return

SpecVectors == InitVectors /\ [][NextVectors]_vars

\* any directory, about to be changed and hashed before and after
InitTrees ==
    /\ RuntimeIdle
    /\ NoBuild
    /\ NoVectors
    /\ NoPack
    /\ NoFacade
    /\ tree_a \in Trees
    /\ tree_b = tree_a
    /\ edits = 0
    /\ hash_a = <<>>
    /\ hash_b = <<>>

NextTrees ==
    \/ mutate_byte
    \/ rename_file
    \/ add_file
    \/ remove_file
    \/ compute_sha256_twice

SpecTrees == InitTrees /\ [][NextTrees]_vars

\* an output directory after the builds: each artifact is there or not
InitPack ==
    /\ RuntimeIdle
    /\ NoBuild
    /\ NoVectors
    /\ NoTrees
    /\ NoFacade
    /\ pack_vocab \in {[exists |-> FALSE, bytes |-> <<>>]}
                     \cup [exists : {TRUE}, bytes : Contents]
    /\ pack_vectors \in {[exists |-> FALSE, files |-> {}]}
                       \cup [exists : {TRUE}, files : Trees]
    /\ pack_manifest = <<>>
    /\ walked_build = <<>>
    /\ walked_load = <<>>
    /\ ppc = "built"
    /\ pack_verified = "none"

NextPack ==
    \/ generate_manifest
    \/ verify_sealed_pack

SpecPack == InitPack /\ [][NextPack]_vars

\* the runtime with every component idle and the context slot as given
RuntimeWith(slot) ==
    /\ instance = slot
    /\ calls = 0
    /\ pc = "idle"
    /\ manifest = <<>>
    /\ verifyResult = "none"
    /\ hashed = <<>>
    /\ opened = {}
    /\ closed = {}
    /\ outcome = "none"
    /\ history = <<>>
    /\ got = [raised |-> "none", ctx |-> None]
    /\ got_at = "idle"
    /\ NoCall
    /\ concept = [c \in ConceptIds |-> NoRow]
    /\ concept_relationship = {}
    /\ text = <<>>
    /\ k = 1
    /\ domain_filter = NoFilter
    /\ vectors = <<>>
    /\ concept_ancestor = {}
    /\ NoQuery
    /\ NoBuild
    /\ NoVectors
    /\ NoTrees
    /\ NoPack

\* any caller of Codex.query, on any table code_vectors, with or without an
\* initialized context
InitQuery ==
    /\ \E slot \in {None, 1} : RuntimeWith(slot)
    /\ code_vectors \in CodeTables
    /\ sealed = code_vectors
    /\ user \in Users
    /\ hits = <<>>
    /\ filtered = <<>>
    /\ fpc = "idle"
    /\ runs = 0

NextQuery == query

SpecQuery == InitQuery /\ [][NextQuery]_vars

\* an initialized context on a pack with any table code_vectors
InitIndex ==
    /\ RuntimeWith(1)
    /\ code_vectors \in CodeTables
    /\ sealed = code_vectors
    /\ user \in Users
    /\ hits = <<>>
    /\ filtered = <<>>
    /\ fpc = "idle"
    /\ runs = 0

NextIndex ==
    \/ index_repository
    \/ query

SpecIndex == InitIndex /\ [][NextIndex]_vars

\* ------------------------------------------------------------------------
\* Properties of the runtime context and the loader (checked under Spec)
\* ------------------------------------------------------------------------
\* the context built by the most recent successful call in h, None if there is none
RECURSIVE LastSuccess(_)
LastSuccess(h) ==
    IF h = <<>> THEN None
    ELSE IF h[Len(h)] # None THEN h[Len(h)]
    ELSE LastSuccess(SubSeq(h, 1, Len(h) - 1))

\* verify_integrity ran on a loaded manifest in the running (or last) call
VerifyRan == verifyResult \notin {"none", "LoadManifestRaised"}

\* the entry is a regular file or a directory of the pack whose digest on disk
\* is the one the manifest expects
Accepted(e) == e.kind \in HashableKinds /\ e.actual = e.expected

\* index of the first entry of m that is not Accepted, 0 when all are
FirstRejected(m) ==
    IF \A i \in 1..Len(m) : Accepted(m[i]) THEN 0
    ELSE CHOOSE i \in 1..Len(m) :
            /\ ~Accepted(m[i])
            /\ \A j \in 1..(i - 1) : Accepted(m[j])

\* the errors verify_integrity raises
VerifyErrors == {"PathTraversal", "ArtifactMissing", "Symlink", "IntegrityMismatch"}

\* C1: at every moment get_instance() fails with the not-initialized error if
\* no initialize call has succeeded so far and otherwise returns the context
\* built by the most recent successful call; a failing call changes nothing.
C1_ContextDurability ==
    get_instance_result =
        (IF LastSuccess(history) = None THEN [raised |-> "NotInitialized", ctx |-> None]
         ELSE [raised |-> "none", ctx |-> LastSuccess(history)])

\* C1 witness: a call failed after an earlier one succeeded, and get_instance()
\* called afterwards returned the earlier context.
C1_Witness ==
    /\ pc = "idle"
    /\ Len(history) >= 2
    /\ history[Len(history)] = None
    /\ history[Len(history) - 1] # None
    /\ got = [raised |-> "none", ctx |-> history[Len(history) - 1]]

\* C2 (as claimed): when initialize has failed, every store handle the call
\* opened has been closed.
C2_HandlesReleasedOnFailure ==
    (pc = "idle" /\ outcome \notin {"none", "ok"}) => opened \subseteq closed

\* C3: a store is open only after verify_integrity accepted every manifest
\* entry, and when manifest loading or verification failed the call has failed
\* with no store opened.
C3_StoresOnlyAfterVerification ==
    /\ opened # {} =>
          /\ verifyResult = "True"
          /\ \A i \in 1..Len(manifest) : Accepted(manifest[i])
    /\ verifyResult \notin {"none", "True"} =>
          /\ opened = {}
          /\ pc = "idle"
          /\ outcome \notin {"none", "ok"}
          /\ history[Len(history)] = None

\* C3 witness: after an earlier successful initialize, a call on a pack whose
\* store file no longer has the expected digest failed with no store opened.
C3_Witness ==
    /\ instance # None
    /\ outcome = "IntegrityMismatch"
    /\ opened = {}
    /\ \E i \in 1..Len(manifest) :
          manifest[i].kind = "file" /\ manifest[i].actual # manifest[i].expected

\* C4 (as claimed): if some entry resolves outside the pack root,
\* verify_integrity fails with the path-traversal violation and no hash of any
\* entry has been computed.
C4_NoHashBeforeTraversalCheck ==
    (VerifyRan /\ \E i \in 1..Len(manifest) : ~ResolvesInside(manifest[i]))
        => (verifyResult = "PathTraversal" /\ hashed = <<>>)

\* C4 (amended): if the first entry, in manifest order, that fails a check is
\* one that resolves outside the pack root, verify_integrity fails with the
\* path-traversal violation, and exactly the entries before it were hashed.
C4_TraversalBeforeOwnHash ==
    LET f == FirstRejected(manifest)
    IN  (VerifyRan /\ f # 0 /\ ~ResolvesInside(manifest[f]))
            => /\ verifyResult = "PathTraversal"
               /\ hashed = [i \in 1..(f - 1) |-> i]

\* C4 witness: an accepted artifact was hashed, then the next entry escaped the
\* pack root and was rejected unhashed.
C4_Witness ==
    /\ Len(manifest) = 2
    /\ Accepted(manifest[1])
    /\ manifest[2].kind = "outside"
    /\ verifyResult = "PathTraversal"
    /\ hashed = <<1>>

\* C5 (as claimed): when the entry verify_integrity stops at is a symbolic
\* link, whatever its target, the error is the symlink violation.
C5_SymlinkAlwaysSymlinkViolation ==
    LET f == FirstRejected(manifest)
    IN  (VerifyRan /\ f # 0 /\ IsSymlink(manifest[f])) => verifyResult = "Symlink"

\* C6: verify_integrity returns True exactly when every entry exists as a file
\* or directory of the pack with the expected digest, and otherwise raises.
C6_SuccessIffAllMatch ==
    VerifyRan =>
        /\ verifyResult = "True" <=> \A i \in 1..Len(manifest) : Accepted(manifest[i])
        /\ verifyResult \in {"True"} \cup VerifyErrors

\* C6 witness: a manifest naming a file and a directory, both matching, passed.
C6_Witness ==
    /\ verifyResult = "True"
    /\ \E i, j \in 1..Len(manifest) :
          manifest[i].kind = "file" /\ manifest[j].kind = "dir"

\* ------------------------------------------------------------------------
\* Properties of the normalizer (checked under SpecNorm and SpecElev)
\* ------------------------------------------------------------------------
\* the characters of ^[A-Za-z0-9_]+$
IdentChars ==
    {"A", "B", "C", "D", "E", "F", "G", "H", "I", "J", "K", "L", "M", "N", "O",
     "P", "Q", "R", "S", "T", "U", "V", "W", "X", "Y", "Z",
     "a", "b", "c", "d", "e", "f", "g", "h", "i", "j", "k", "l", "m", "n", "o",
     "p", "q", "r", "s", "t", "u", "v", "w", "x", "y", "z",
     "0", "1", "2", "3", "4", "5", "6", "7", "8", "9", "_"}

MatchesIdentifier(f) == f # <<>> /\ \A i \in 1..Len(f) : f[i] \in IdentChars

\* normalize was called with a non-blank text and has ended
Searched == phase = "done" /\ strip(text) # <<>> /\ embedded = "vector"

\* smallest index at which concept id c occurs in the vector result rs
FirstIndex(rs, c) ==
    CHOOSE i \in 1..Len(rs) :
        /\ rs[i].concept_id = c
        /\ \A j \in 1..(i - 1) : rs[j].concept_id # c

\* the concept ids of a list of matches
MatchIds(ms) == {ms[i].concept_id : i \in 1..Len(ms)}

\* targets of the active 'Maps to' rows leaving concept c
ValidMapsTo(c) ==
    {e.concept_id_2 : e \in {r \in concept_relationship :
        /\ r.concept_id_1 = c
        /\ r.relationship_id = "Maps to"
        /\ r.invalid_reason = Null}}

\* C7 (as claimed): a domain_filter that is present and does not match
\* ^[A-Za-z0-9_]+$ makes normalize fail with InvalidInput before the embedder
\* or a store is called; nothing is returned.
C7_InvalidFilterRejected ==
    (Searched /\ domain_filter # NoFilter /\ ~MatchesIdentifier(domain_filter))
        => (raised = "InvalidInput" /\ trace = <<>> /\ matches = <<>>)

\* C8 (as claimed): a returned match of a non-standard concept carries the
\* target of one of its active 'Maps to' rows when it has one, and null
\* otherwise.
C8_MappedStandardIdAttached ==
    Searched =>
        \A i \in 1..Len(matches) :
            ~matches[i].is_standard =>
                IF ValidMapsTo(matches[i].concept_id) # {}
                THEN matches[i].mapped_standard_id \in ValidMapsTo(matches[i].concept_id)
                ELSE matches[i].mapped_standard_id = None

\* C9: the match of a concept id carries the similarity of the first
\* occurrence of the id in the vector result, 1 - d_first.
C9_FirstScoreKept ==
    Searched =>
        \A i \in 1..Len(matches) :
            /\ matches[i].concept_id \in {results[j].concept_id : j \in 1..Len(results)}
            /\ matches[i].similarity_score =
                  ScoreOne - results[FirstIndex(results, matches[i].concept_id)].distance

\* C9 witness: an id came back twice at different distances and was matched.
C9_Witness ==
    /\ Searched
    /\ \E i, j \in 1..Len(results) :
          /\ i < j
          /\ results[i].concept_id = results[j].concept_id
          /\ results[i].distance < results[j].distance
          /\ results[i].concept_id \in MatchIds(matches)

\* C10: the ids of the matches are exactly the distinct ids of the vector
\* result that have a concept row, of the filter's domain when a filter is
\* set; each id is matched once and an id without a row raises nothing.
C10_HydratedIdsExact ==
    Searched =>
        /\ raised = "none"
        /\ MatchIds(matches) =
              {c \in {results[j].concept_id : j \in 1..Len(results)} :
                  /\ concept[c] # NoRow
                  /\ domain_filter \notin {NoFilter, <<>>}
                        => concept[c].domain_id = domain_filter}
        /\ \A i, j \in 1..Len(matches) :
              matches[i].concept_id = matches[j].concept_id => i = j

\* C10 witness: under a domain filter a result holding an orphan id and the id
\* of a concept of another domain came back without them, or with the one
\* concept of the domain only.
C10_Witness ==
    /\ Searched
    /\ domain_filter = Condition
    /\ \E j \in 1..Len(results) : concept[results[j].concept_id] = NoRow
    /\ \E j \in 1..Len(results) :
          /\ concept[results[j].concept_id] # NoRow
          /\ concept[results[j].concept_id].domain_id = Condition
    /\ Len(matches) = 1

\* position of concept id c in the row order rws
RowIndex(rws, c) == CHOOSE i \in 1..Len(rws) : rws[i] = c

\* the records of the ranked table tbl whose concept is of domain f
OfDomain(tbl, f) ==
    SelectSeq(tbl, LAMBDA r :
        concept[r.concept_id] # NoRow /\ concept[r.concept_id].domain_id = f)

\* C11: the returned list holds one match per row of the query, by
\* similarity_score descending, and matches of equal score stand in the order
\* of their rows, the order in which they were constructed.
C11_StableDescending ==
    Searched =>
        /\ MatchIds(matches) = {rows[i] : i \in 1..Len(rows)}
        /\ Len(matches) = Len(rows)
        /\ \A i, j \in 1..Len(matches) :
              i < j =>
                 /\ matches[i].similarity_score >= matches[j].similarity_score
                 /\ matches[i].similarity_score = matches[j].similarity_score
                       => RowIndex(rows, matches[i].concept_id)
                             < RowIndex(rows, matches[j].concept_id)

\* C11 witness: two matches of equal score were returned in the order of
\* their rows, the higher concept id first.
C11_Witness ==
    /\ Searched
    /\ Len(matches) = 2
    /\ matches[1].similarity_score = matches[2].similarity_score
    /\ matches[1].concept_id > matches[2].concept_id
    /\ rows = <<matches[1].concept_id, matches[2].concept_id>>

\* C12 (as claimed): every returned match has a similarity_score within
\* [0, 1], whatever distance in [0, 2] the vector store reported.
C12_ScoreWithinUnitInterval ==
    Searched =>
        \A i \in 1..Len(matches) :
            /\ matches[i].similarity_score >= 0
            /\ matches[i].similarity_score <= ScoreOne

C14_FilterBeforeCut ==
    (Searched /\ FilterApplies(domain_filter)) =>
        LET nearest == search(OfDomain(vectors, domain_filter), k)
        IN  MatchIds(matches) = {nearest[i].concept_id : i \in 1..Len(nearest)}

\* C15 (as claimed): when the embedder raises or returns a vector of the
\* wrong dimension, normalize fails with EmbedderFailure.
C15_EmbedderFailureTyped ==
    (phase = "done" /\ embedded \in {"raises", "wrong_dimension"})
        => raised = "EmbedderFailure"

\* ------------------------------------------------------------------------
\* Properties of the hierarchy and the cross-walker (checked under SpecRel)
\* ------------------------------------------------------------------------
\* the elements of a list
Elements(l) == {l[i] : i \in 1..Len(l)}

\* get_descendants(x) ran and the store answered
Descended == op = "get_descendants" /\ ~store_fails

\* the ids that occur in the ancestor table
InAncestorTable ==
    {r.ancestor_concept_id : r \in concept_ancestor}
        \cup {r.descendant_concept_id : r \in concept_ancestor}

\* the active rows of concept_relationship from a to b with relationship r
ActiveEdges(a, b, r) ==
    {e \in concept_relationship :
        /\ e.concept_id_1 = a
        /\ e.concept_id_2 = b
        /\ e.relationship_id = r
        /\ e.invalid_reason = Null}

C18_TranslationsExact ==
    (op = "translate_code" /\ ~store_fails) =>
        Elements(returned) =
            {c \in ConceptIds :
                /\ ActiveEdges(args[1], c, args[2]) # {}
                /\ concept[c] # NoConcept
                /\ concept[c].invalid_reason = Null
                /\ args[3] # NoVocabulary => concept[c].vocabulary_id = args[3]}

\* C19: check_relationship(a, b, r) answers true exactly when an active row
\* (a, b, r) exists; a reverse row, a row of another relationship, an
\* invalidated row or the state of the target concept do not count.
C19_ExactActiveEdge ==
    (op = "check_relationship" /\ ~store_fails) =>
        (answer <=> ActiveEdges(args[1], args[2], args[3]) # {})

\* C19 witness: the edge to a deprecated target was affirmed.
C19_Witness ==
    /\ op = "check_relationship"
    /\ ~store_fails
    /\ answer
    /\ args[1] # args[2]
    /\ concept[args[2]].invalid_reason = "D"

\* C20: when the store raises during the query, get_descendants and
\* translate_code return [] and check_relationship returns false; nothing is
\* raised to the caller.
C20_StoreErrorsSwallowed ==
    (op # "none" /\ store_fails) =>
        /\ escaped = "none"
        /\ returned = <<>>
        /\ op = "check_relationship" => ~answer

\* C20 witness: the store raised in a translate_code call that had a
\* translation to return.
C20_Witness ==
    /\ op = "translate_code"
    /\ store_fails
    /\ \E c \in ConceptIds :
          /\ ActiveEdges(args[1], c, args[2]) # {}
          /\ concept[c].invalid_reason = Null

\* ------------------------------------------------------------------------
\* Properties of the builder (checked under SpecVocab)
\* ------------------------------------------------------------------------
\* C21: when build_vocab raises after the sources were verified, the handle it
\* opened is closed and the output directory holds no vocab.duckdb, whatever
\* the directory held before the call.
C21_FailedBuildLeavesNoStore ==
    (bpc = "raised" /\ berror = "RuntimeError") =>
        /\ bfailed # "none"
        /\ vocab_file = "absent"
        /\ bcon # "open"

\* C21 witness: index creation failed in a call that found an earlier
\* vocab.duckdb; the handle is closed and the file is gone.
C21_Witness ==
    /\ bpc = "raised"
    /\ bfailed = "indexes"
    /\ before # "absent"
    /\ bcon = "closed"
    /\ vocab_file = "absent"

\* ------------------------------------------------------------------------
\* Properties of the vector build (checked under SpecVectors)
\* ------------------------------------------------------------------------
\* C22 (as claimed): a build in which embed_batch returned fewer or more
\* vectors than it got names fails; it never returns with the records of
\* such a batch.
C22_MismatchedBatchFails ==
    vpc = "returned" =>
        /\ ~mismatched
        /\ \A i \in 1..Len(vec_table.records) :
              vec_table.records[i].vector = vec_table.records[i].concept_name

\* C29 (as claimed): when build_vectors failed while streaming, the output
\* directory holds no partially built vector table.
C29_FailedBuildLeavesNoTable ==
    (vpc = "raised" /\ verror = "RuntimeError") => vec_table.state # "partial"

\* C30: a build_vectors that returned left exactly one record per CONCEPT row
\* with a non-null, non-empty concept_name, carrying the id and the name of
\* the row, whatever the batch size was and whatever table was there before.
C30_OneRecordPerNamedRow ==
    vpc = "returned" =>
        LET named == {i \in 1..Len(CONCEPT) : CONCEPT[i] \notin {Null, ""}}
            recs == vec_table.records
        IN  /\ vec_table.state = "complete"
            /\ Len(recs) = Cardinality(named)
            /\ {recs[i].concept_id : i \in 1..Len(recs)} = named
            /\ \A i \in 1..Len(recs) : recs[i].concept_name = CONCEPT[recs[i].concept_id]

\* C30 witness: a table of two named rows was embedded in batches of one over
\* the table of an earlier run.
C30_Witness ==
    /\ vpc = "returned"
    /\ batch_size = 1
    /\ Len(vec_table.records) = 2
    /\ StaleRecord \notin {vec_table.records[i] : i \in 1..Len(vec_table.records)}
    /\ \E i \in 1..Len(CONCEPT) : CONCEPT[i] \in {Null, ""}

\* ------------------------------------------------------------------------
\* Properties of the hashes (checked under SpecPack and SpecTrees)
\* ------------------------------------------------------------------------
\* C23: the pack that generate_manifest sealed passes verify_integrity, and
\* for the file and for the directory of the pack the builder's hash function
\* returns what the loader's returns, in whatever orders the directory is
\* listed.
C23_BuiltPackVerifies ==
    /\ ppc = "verified" => pack_verified = "True"
    /\ pack_vocab.exists =>
          compute_file_hash(pack_vocab.bytes) = compute_file_sha256(pack_vocab.bytes)
    /\ \A w1, w2 \in Listings(pack_vectors.files) :
          compute_dir_hash(w1) = compute_directory_sha256(w2)

\* C23 witness: a pack with both artifacts was verified after the builder and
\* the loader were given the two files of vectors.lance in different orders.
C23_Witness ==
    /\ ppc = "verified"
    /\ pack_verified = "True"
    /\ Len(pack_manifest) = 2
    /\ Len(walked_build) = 2
    /\ walked_build # walked_load

\* C27 (as claimed): two directories with the same directory hash have the
\* same set of (relative path, file hash) pairs.
C27_EqualHashSameFiles ==
    (hash_a # <<>> /\ hash_a = hash_b) =>
        {<<f.rel, hexdigest(f.bytes)>> : f \in tree_a}
            = {<<f.rel, hexdigest(f.bytes)>> : f \in tree_b}

\* ------------------------------------------------------------------------
\* Further properties of the runtime context (checked under Spec)
\* ------------------------------------------------------------------------
\* C25 (as claimed): after a successful initialize each opened store was
\* listed in the manifest: the relational store as a file entry, the vector
\* store as a directory entry; a pack with an empty checksums map is not
\* opened.
C25_OpenedStoresWereListed ==
    (pc = "idle" /\ outcome = "ok" /\ history[Len(history)] = calls) =>
        /\ "duckdb" \in opened => \E i \in 1..Len(manifest) : manifest[i].kind = "file"
        /\ "lancedb" \in opened => \E i \in 1..Len(manifest) : manifest[i].kind = "dir"

\* the contexts whose construction was completed and that were published
Published == {history[i] : i \in 1..Len(history)} \ {None}

\* C26: whatever the initializing thread is doing, get_instance() returns a
\* context that was published after its construction was complete, the one
\* published last; the context of a call still under way, or of one that
\* failed, is in the slot at no moment and is returned to no caller.
C26_OnlyPublishedContexts ==
    /\ instance # None => instance \in Published
    /\ pc # "idle" => instance # calls
    /\ got.raised = "none" /\ got.ctx # None =>
          /\ got.ctx \in Published
          /\ got_at # "idle" => got.ctx < calls

\* C26 witness: while a later initialize was between opening the stores and
\* building the components, get_instance() returned the context published
\* before, and that initialize has since published its own.
C26_Witness ==
    /\ got_at \in {"embedder", "normalizer", "hierarchy", "crosswalker"}
    /\ got.raised = "none"
    /\ got.ctx = 1
    /\ instance = 2
    /\ pc = "idle"

\* ------------------------------------------------------------------------
\* Properties of the facade (checked under SpecQuery and SpecIndex)
\* ------------------------------------------------------------------------
\* C24: Codex.query returns the results of the search whose owner_id is the
\* user's user_id or whose allowed_groups, taken as empty when it is not a
\* list, shares a group with the user's groups; it returns no other result,
\* and the returned results stand in the order of the search.
C24_QueryFilter ==
    fpc = "queried" =>
        filtered = SelectSeq(hits, LAMBDA res :
                       \/ res.owner_id = user.user_id
                       \/ /\ res.allowed_groups.list
                          /\ res.allowed_groups.items \cap user.groups # {})

\* C24 witness: of two results, the first one, of another owner, with a value
\* of allowed_groups that is not a list but holds a group of the user, was
\* withheld, and the second one, shared with a group of the user, returned.
C24_Witness ==
    /\ fpc = "queried"
    /\ Len(hits) = 2
    /\ hits[1].owner_id \notin {user.user_id, NoOwner}
    /\ ~hits[1].allowed_groups.list
    /\ hits[1].allowed_groups.items \cap user.groups # {}
    /\ hits[2].owner_id = NoOwner
    /\ hits[2].allowed_groups.list
    /\ filtered = <<hits[2]>>

\* C28 (as claimed): once initialize has succeeded, the pack directory holds
\* what it held then, whatever was done through the context.
C28_PackNotMutated ==
    instance # None => code_vectors = sealed

====
